---------------------------- MODULE Spec2Model ----------------------------
(***************************************************************************)
(* Clock++ (src/clock++.hpp): the timer registry s_start_times with        *)
(* clock_start / clock_stop, and the one-shot function timer clock_func.   *)
(*                                                                         *)
(* Each thread is a small program counter machine.  The two operator[]     *)
(* calls of line 117 / 128 are split into a find and, when the key is      *)
(* absent, an insert, because std::unordered_map gives no atomicity: the   *)
(* steps of different threads interleave freely unless the program calls   *)
(* the library from one thread at a time (serial = TRUE).                  *)
(*                                                                         *)
(* The registry is kept as the heap the code builds: s_start_times maps a  *)
(* location to an inner-map object, an inner map maps a thread id to a     *)
(* stack object, and a reference held by a thread (start_times) is the id  *)
(* of a stack object, which stays valid when the node is unlinked.         *)
(*                                                                         *)
(* Clock::now() is modelled as a non-decreasing reading.                   *)
(*                                                                         *)
(* A report is one fprintf(stderr, ...) call.  Spec and SpecConc take the  *)
(* call as one step; SpecStream takes it as the C library runs it: the     *)
(* stream is locked, the line is written in pieces, the stream is          *)
(* unlocked.                                                               *)
(* Fields and variables whose names start with g_ are history (ghost)      *)
(* values: they record what happened and never influence the program.      *)
(***************************************************************************)
EXTENDS Integers, Sequences, FiniteSets, TLC

\* ------------------------------------------------------------------ bounds
\* Calls of clock_start / clock_stop / clock_func made in one run, all threads.
MaxCalls == 4
\* Largest clock reading.
MaxTime == 2

\* ------------------------------------------------------- program constants
\* char buff[128] and snprintf(buff, 128, ...)
BuffSize == 128

\* ------------------------------------------------------------------ inputs
Threads == {1, 2}

\* pthread_self(): a distinct non-zero identity per live thread.
PthreadSelf(t) == 139 + t

RECURSIVE Pad(_)
Pad(n) ==
    IF n = 0 THEN ""
    ELSE IF n % 2 = 0 THEN LET half == Pad(n \div 2) IN half \o half
    ELSE "T" \o Pad(n - 1)

ShortFile == "a.cpp"
MainFn == "main"
\* A __PRETTY_FUNCTION__ so long that file::function has BuffSize characters:
\* the last character is the only one in which two such names differ.
LongFn(c) == Pad(BuffSize - Len(ShortFile) - Len("::") - 1) \o c

\* A call site of CLOCK_START() or CLOCK_STOP(): __FILE__, __PRETTY_FUNCTION__
\* and __LINE__ there.
Site(file, function, line) == [ file |-> file, function |-> function, line |-> line ]
\* A call site of CLOCK(f, ...): __LINE__, #f "()" and what the callable does
\* when invoked: return ("plain"), throw ("throws"), or use CLOCK_START() and
\* CLOCK_STOP() itself and return ("nested").
FuncSite(line, f_name, callable) ==
    [ file |-> ShortFile, line |-> line, f_name |-> f_name, callable |-> callable ]
Exceptions == { "e1", "e2" }

\* The programs that use the header: the threads that run the code, and the
\* call sites of CLOCK_START(), CLOCK_STOP() and CLOCK() the code contains.
Program(threads, starts, stops, funcs) ==
    [ threads |-> threads, starts |-> starts, stops |-> stops, funcs |-> funcs ]
Programs ==
    { \* one function with nested intervals
      Program({1}, {Site(ShortFile, MainFn, 10), Site(ShortFile, MainFn, 11)},
              {Site(ShortFile, MainFn, 12)}, {}),
      \* two threads running the same function
      Program({1, 2}, {Site(ShortFile, MainFn, 10)}, {Site(ShortFile, MainFn, 12)}, {}),
      \* two functions with long signatures
      Program({1}, {Site(ShortFile, LongFn("1"), 10)},
              {Site(ShortFile, LongFn("1"), 12), Site(ShortFile, LongFn("2"), 12)}, {}),
      \* two functions, a short and a long signature
      Program({1}, {Site(ShortFile, MainFn, 10), Site(ShortFile, LongFn("1"), 11)},
              {Site(ShortFile, MainFn, 12), Site(ShortFile, LongFn("1"), 12)}, {}),
      \* CLOCK() of a function that uses the registry, and of a throwing lambda
      Program({1}, {Site(ShortFile, MainFn, 10)}, {Site(ShortFile, MainFn, 12)},
              {FuncSite(31, "foo()", "nested"), FuncSite(33, "[&](){}()", "throws")}),
      \* two threads, intervals and CLOCK()
      Program({1, 2}, {Site(ShortFile, MainFn, 10)}, {Site(ShortFile, MainFn, 12)},
              {FuncSite(32, "[&](){}()", "plain")}) }

\* ----------------------------------------------------------------- helpers
Last(s) == s[Len(s)]
Front(s) == SubSeq(s, 1, Len(s) - 1)

\* snprintf(buff, size, ...): at most size-1 characters are stored.
Snprintf(size, s) == IF Len(s) > size - 1 THEN SubSeq(s, 1, size - 1) ELSE s

get_location(file, function) == Snprintf(BuffSize, file \o "::" \o function)

\* strchr(s, c) != NULL
Strchr(s, c) == \E i \in 1..Len(s) : SubSeq(s, i, i) = c

\* "%lx" of a non-negative long
HexDigit(d) == SubSeq("0123456789abcdef", d + 1, d + 1)
RECURSIVE Hex(_)
Hex(n) == IF n < 16 THEN HexDigit(n) ELSE Hex(n \div 16) \o HexDigit(n % 16)

\* A signed 64-bit count converted to unsigned long long: wrap * 2^64 + val.
ToULL(d) == [wrap |-> IF d < 0 THEN 1 ELSE 0, val |-> d]
ZeroULL == ToULL(0)

\* TimePoint{} : the epoch
EpochTimePoint == 0

VARIABLES
    program,        \* the program that uses the header
    has_pthread,    \* build: _PTHREAD_H was defined when the header was read
    serial,         \* program: the library is called from one thread at a time
    now,            \* last reading of Clock
    s_start_times,  \* outer map: location -> id of an inner map
    maps,           \* heap of inner maps: id -> (thread id -> id of a stack)
    stacks,         \* heap of std::stack<Timer>: id -> sequence, top last
    stderr,         \* the report lines written so far
    pc,             \* per thread: position inside clock_start / clock_stop
    lc,             \* per thread: locals of clock_start / clock_stop
    fn,             \* per thread: frame of clock_func
    crashed,        \* the process died of undefined behaviour
    g_calls,        \* number of calls made so far
    g_pending,      \* per registry key: ids of starts not yet popped, in order
    g_inserted,     \* every (location, thread id, stack) that operator[] linked
    g_stops,        \* per thread: clock_stop calls made with a start of its key pending
    g_starts,       \* per registry key: number of clock_start calls made on it
    g_names,        \* per location: the file::function strings of the calls that used it
    flock,          \* stderr's stream lock: the thread inside a stdio call on it, or 0
    fcall,          \* per thread: its fprintf(stderr, ...) call in progress
    stream          \* the pieces of text written to stderr so far, in order

vars == << program, has_pthread, serial, now, s_start_times, maps, stacks, stderr, pc, lc,
           fn, crashed, g_calls, g_pending, g_inserted, g_stops, g_names,
           g_starts, flock, fcall, stream >>

registry == << s_start_times, maps, stacks >>

\* (mutant: pthread_self() used whether or not _PTHREAD_H was seen)
get_thread_id_unguarded(t) == PthreadSelf(t)
\* lines 103-110: pthread_self() under #ifdef _PTHREAD_H, else 0
get_thread_id(t) == IF has_pthread THEN PthreadSelf(t) ELSE 0

NoLocals ==
    [ op |-> "none", file |-> "", function |-> "", line |-> 0, thread_id |-> 0,
      location |-> "", end |-> 0, snap |-> << >>, map |-> 0, start_times |-> 0,
      start |-> 0, diff |-> 0, ret |-> ZeroULL, emitted |-> 0,
      g_id |-> 0, g_pre |-> << >>, g_popped |-> << >>, g_depth |-> 0,
      g_present |-> FALSE, g_left |-> << >> ]

NoFrame ==
    [ state |-> "none", file |-> "", line |-> 0, f_name |-> "", callable |-> "plain",
      thread_id |-> 0, location |-> "", start |-> 0, diff |-> 0, ret |-> ZeroULL,
      invoked |-> 0, emitted |-> 0, raised |-> "", thrown |-> "", g_outcome |-> "none",
      g_id |-> 0 ]

\* No fprintf in progress: pos is the number of the next piece to write.
NoFprintf == [ pos |-> 0, report |-> << >> ]

InitWith(one_at_a_time) ==
    /\ program \in Programs
    /\ has_pthread \in BOOLEAN
    /\ serial = one_at_a_time
    /\ now = 1
    /\ s_start_times = << >>
    /\ maps = << >>
    /\ stacks = << >>
    /\ stderr = << >>
    /\ pc = [t \in Threads |-> "ready"]
    /\ lc = [t \in Threads |-> NoLocals]
    /\ fn = [t \in Threads |-> NoFrame]
    /\ crashed = FALSE
    /\ g_calls = 0
    /\ g_pending = << >>
    /\ g_inserted = {}
    /\ g_stops = [t \in Threads |-> 0]
    /\ g_names = << >>
    /\ g_starts = << >>
    /\ flock = 0
    /\ fcall = [t \in Threads |-> NoFprintf]
    /\ stream = << >>

\* The program calls the library from one thread at a time.
Init == InitWith(TRUE)
\* The program's threads call the library concurrently.
InitConc == InitWith(FALSE)

\* ------------------------------------------------------------- scheduling
OthersIdle(t) == \A u \in Threads \ {t} : pc[u] = "ready" /\ fn[u].state = "none"
Sched(t) == ~crashed /\ (serial => OthersIdle(t))

\* A CLOCK_START() / CLOCK_STOP() can be written in the program proper or in
\* the body of a callable that clock_func is measuring.
CanCall(t) ==
    /\ Sched(t)
    /\ t \in program.threads
    /\ pc[t] = "ready"
    /\ g_calls < MaxCalls
    /\ \/ fn[t].state = "none"
       \/ fn[t].state = "invoked" /\ fn[t].callable = "nested"

\* (mutant: a clock that can be set back between two readings)
ClockNowUnsteady == 1..MaxTime
\* Clock::now(): the readings the clock can give next.
ClockNow == { v \in {now, now + 1} : v <= MaxTime }

\* ------------------------------------------------------ maps and the heap
Put(f, k, v) == [x \in DOMAIN f \cup {k} |-> IF x = k THEN v ELSE f[x]]

Key(location, thread_id) == << location, thread_id >>
Pending(location, thread_id) ==
    IF Key(location, thread_id) \in DOMAIN g_pending
    THEN g_pending[Key(location, thread_id)] ELSE << >>

Starts(location, thread_id) ==
    IF Key(location, thread_id) \in DOMAIN g_starts
    THEN g_starts[Key(location, thread_id)] ELSE 0
Names(location) == IF location \in DOMAIN g_names THEN g_names[location] ELSE {}
Used(location, file, function) ==
    Put(g_names, location, Names(location) \cup {file \o "::" \o function})

\* Is the key linked in the registry, and the stack it leads to.
Present(location, thread_id) ==
    /\ location \in DOMAIN s_start_times
    /\ thread_id \in DOMAIN maps[s_start_times[location]]
StackOf(location, thread_id) ==
    IF Present(location, thread_id)
    THEN stacks[maps[s_start_times[location]][thread_id]] ELSE << >>

\* What a racing insert can do to a std::unordered_map that another thread
\* changed between this thread's find and its insert (a data race, undefined):
\* link both nodes, overwrite the other thread's link, or bring the process down.
InsertOutcomes(snap, current) ==
    IF snap = current THEN {"kept"} ELSE {"kept", "lost", "crash"}

\* Where clock_start / clock_stop go once start_times is bound.
AfterIndex(op) == IF op = "start" THEN "emplace" ELSE "check"

\* -------------------------------------------------------------- clock_start
\* lines 112-115: the call, thread_id and location
ClockStartCall(t) ==
    /\ CanCall(t)
    /\ \E site \in program.starts :
         LET thread_id == get_thread_id(t)
             location == get_location(site.file, site.function)
         IN /\ lc' = [lc EXCEPT ![t] =
                     [NoLocals EXCEPT !.op = "start", !.file = site.file,
                                      !.function = site.function, !.line = site.line,
                                      !.thread_id = thread_id, !.location = location,
                                      !.g_id = g_calls + 1,
                                      !.g_pre = Pending(location, thread_id),
                                      !.g_depth = Len(StackOf(location, thread_id)),
                                      !.g_present = Present(location, thread_id)]]
            /\ g_names' = Used(location, site.file, site.function)
            /\ g_starts' = Put(g_starts, Key(location, thread_id),
                               Starts(location, thread_id) + 1)
    /\ pc' = [pc EXCEPT ![t] = "index_outer"]
    /\ g_calls' = g_calls + 1
    /\ UNCHANGED << program, flock, fcall, stream, has_pthread, serial, now, s_start_times, maps, stacks, stderr,
                    fn, crashed, g_pending, g_inserted, g_stops >>

\* lines 117 / 128, s_start_times[location]: the find
IndexOuter(t) ==
    /\ Sched(t)
    /\ pc[t] = "index_outer"
    /\ IF lc[t].location \in DOMAIN s_start_times
       THEN /\ lc' = [lc EXCEPT ![t].map = s_start_times[lc[t].location]]
            /\ pc' = [pc EXCEPT ![t] = "index_inner"]
       ELSE /\ lc' = [lc EXCEPT ![t].snap = s_start_times]
            /\ pc' = [pc EXCEPT ![t] = "insert_outer"]
    /\ UNCHANGED << program, g_starts, flock, fcall, stream, has_pthread, serial, now, s_start_times, maps, stacks, stderr,
                    fn, crashed, g_calls, g_pending, g_inserted, g_stops, g_names >>

\* lines 117 / 128, s_start_times[location]: the insert of a new inner map
InsertOuter(t) ==
    /\ Sched(t)
    /\ pc[t] = "insert_outer"
    /\ \E outcome \in InsertOutcomes(lc[t].snap, s_start_times) :
         LET id == Len(maps) + 1 IN
         /\ maps' = Append(maps, << >>)
         /\ s_start_times' =
              CASE outcome = "kept" -> Put(s_start_times, lc[t].location, id)
                [] outcome = "lost" -> Put(lc[t].snap, lc[t].location, id)
                [] outcome = "crash" -> s_start_times
         /\ crashed' = (outcome = "crash")
         /\ lc' = [lc EXCEPT ![t].map = id, ![t].snap = << >>]
    /\ pc' = [pc EXCEPT ![t] = "index_inner"]
    /\ UNCHANGED << program, g_starts, flock, fcall, stream, has_pthread, serial, now, stacks, stderr, fn, g_calls,
                    g_pending, g_inserted, g_stops, g_names >>

\* (mutant: the thread id is ignored and the location's first stack is used)
IndexInnerAnyThread(t) ==
    /\ Sched(t)
    /\ pc[t] = "index_inner"
    /\ LET m == maps[lc[t].map] IN
       IF DOMAIN m # {}
       THEN /\ lc' = [lc EXCEPT ![t].start_times = m[CHOOSE k \in DOMAIN m : TRUE]]
            /\ pc' = [pc EXCEPT ![t] = AfterIndex(lc[t].op)]
       ELSE /\ lc' = [lc EXCEPT ![t].snap = m]
            /\ pc' = [pc EXCEPT ![t] = "insert_inner"]
    /\ UNCHANGED << program, g_starts, flock, fcall, stream, has_pthread, serial, now,
                    s_start_times, maps, stacks, stderr, fn, crashed, g_calls, g_pending,
                    g_inserted, g_stops, g_names >>

\* lines 117 / 128, [thread_id] on the inner map: the find
IndexInner(t) ==
    /\ Sched(t)
    /\ pc[t] = "index_inner"
    /\ LET m == maps[lc[t].map] IN
       IF lc[t].thread_id \in DOMAIN m
       THEN /\ lc' = [lc EXCEPT ![t].start_times = m[lc[t].thread_id]]
            /\ pc' = [pc EXCEPT ![t] = AfterIndex(lc[t].op)]
       ELSE /\ lc' = [lc EXCEPT ![t].snap = m]
            /\ pc' = [pc EXCEPT ![t] = "insert_inner"]
    /\ UNCHANGED << program, g_starts, flock, fcall, stream, has_pthread, serial, now, s_start_times, maps, stacks, stderr,
                    fn, crashed, g_calls, g_pending, g_inserted, g_stops, g_names >>

\* (mutant: a lookup that makes a stack for the call but does not insert it)
InsertInnerUnlinked(t) ==
    /\ Sched(t)
    /\ pc[t] = "insert_inner"
    /\ stacks' = Append(stacks, << >>)
    /\ lc' = [lc EXCEPT ![t].start_times = Len(stacks) + 1, ![t].snap = << >>]
    /\ pc' = [pc EXCEPT ![t] = AfterIndex(lc[t].op)]
    /\ UNCHANGED << program, g_starts, flock, fcall, stream, has_pthread, serial, now,
                    s_start_times, maps, stderr, fn, crashed, g_calls, g_pending,
                    g_inserted, g_stops, g_names >>

\* lines 117 / 128, [thread_id] on the inner map: the insert of an empty stack
InsertInner(t) ==
    /\ Sched(t)
    /\ pc[t] = "insert_inner"
    /\ \E outcome \in InsertOutcomes(lc[t].snap, maps[lc[t].map]) :
         LET id == Len(stacks) + 1 IN
         /\ stacks' = Append(stacks, << >>)
         /\ maps' =
              CASE outcome = "kept" ->
                     [maps EXCEPT ![lc[t].map] = Put(@, lc[t].thread_id, id)]
                [] outcome = "lost" ->
                     [maps EXCEPT ![lc[t].map] = Put(lc[t].snap, lc[t].thread_id, id)]
                [] outcome = "crash" -> maps
         /\ crashed' = (outcome = "crash")
         /\ lc' = [lc EXCEPT ![t].start_times = id, ![t].snap = << >>]
         /\ g_inserted' = IF outcome = "crash" THEN g_inserted
                          ELSE g_inserted \cup {<< lc[t].location, lc[t].thread_id, id >>}
    /\ pc' = [pc EXCEPT ![t] = AfterIndex(lc[t].op)]
    /\ UNCHANGED << program, g_starts, flock, fcall, stream, has_pthread, serial, now, s_start_times, stderr, fn, g_calls,
                    g_pending, g_stops, g_names >>

\* struct Timer, with the call that pushed it, its thread and the
\* file::function of its call site (history)
Timer(m_time, m_line, g_id, g_by, g_from) ==
    [ m_time |-> m_time, m_line |-> m_line, g_id |-> g_id, g_by |-> g_by,
      g_from |-> g_from ]

\* std::stack: emplace, top (its position), pop
Emplace(stack, timer) == Append(stack, timer)
\* (mutant: the oldest element's position, as front() of a queue)
Bottom(stack) == 1
Top(stack) == Len(stack)
\* (mutant: a queue's pop, which takes the oldest element)
PopOldest(stack) == Tail(stack)
\* (mutant: a pop that takes two elements)
PopTwo(stack) == Front(Front(stack))
Pop(stack) == Front(stack)

\* The calls whose timers a stack holds, and the timers a pop took away.
Ids(stack) == { stack[i].g_id : i \in 1..Len(stack) }
IdSeq(stack) == [i \in 1..Len(stack) |-> stack[i].g_id]
Removed(stack, popped) == SelectSeq(stack, LAMBDA timer : timer.g_id \notin Ids(popped))

\* line 118: start_times.emplace(Timer{TimePoint{}, line})
StartEmplace(t) ==
    /\ Sched(t)
    /\ pc[t] = "emplace"
    /\ stacks' = [stacks EXCEPT ![lc[t].start_times] =
                    Emplace(@, Timer(EpochTimePoint, lc[t].line, lc[t].g_id, t,
                                     lc[t].file \o "::" \o lc[t].function))]
    /\ g_pending' = Put(g_pending, Key(lc[t].location, lc[t].thread_id),
                        Append(Pending(lc[t].location, lc[t].thread_id), lc[t].g_id))
    /\ pc' = [pc EXCEPT ![t] = "set_time"]
    /\ UNCHANGED << program, g_starts, flock, fcall, stream, has_pthread, serial, now, s_start_times, maps, stderr, lc, fn,
                    crashed, g_calls, g_inserted, g_stops, g_names >>

\* line 119: start_times.top().m_time = Clock::now(), and the return.
\* top() of a stack another thread emptied meanwhile is undefined: the store
\* goes nowhere or the process dies.
StartSetTime(t) ==
    /\ Sched(t)
    /\ pc[t] = "set_time"
    /\ \E v \in ClockNow :
         LET stack == stacks[lc[t].start_times] IN
         /\ now' = v
         /\ IF stack # << >>
            THEN /\ stacks' = [stacks EXCEPT ![lc[t].start_times][Top(stack)].m_time = v]
                 /\ crashed' = crashed
            ELSE /\ stacks' = stacks
                 /\ crashed' \in BOOLEAN
    /\ pc' = [pc EXCEPT ![t] = "ready"]
    /\ UNCHANGED << program, g_starts, flock, fcall, stream, has_pthread, serial, s_start_times, maps, stderr, lc, fn,
                    g_calls, g_pending, g_inserted, g_stops, g_names >>

\* --------------------------------------------------------------- clock_stop
\* lines 122-127: the call, end = Clock::now(), thread_id and location
ClockStopCall(t) ==
    /\ CanCall(t)
    /\ \E site \in program.stops, v \in ClockNow :
         LET thread_id == get_thread_id(t)
             location == get_location(site.file, site.function)
         IN /\ now' = v
            /\ lc' = [lc EXCEPT ![t] =
                        [NoLocals EXCEPT !.op = "stop", !.file = site.file,
                                         !.function = site.function, !.line = site.line,
                                         !.end = v,
                                         !.thread_id = thread_id, !.location = location,
                                         !.g_id = g_calls + 1,
                                         !.g_pre = Pending(location, thread_id),
                                         !.g_depth = Len(StackOf(location, thread_id)),
                                         !.g_present = Present(location, thread_id)]]
            /\ g_names' = Used(location, site.file, site.function)
            /\ g_stops' = [g_stops EXCEPT ![t] =
                             IF Pending(location, thread_id) # << >> THEN @ + 1 ELSE @]
    /\ pc' = [pc EXCEPT ![t] = "index_outer"]
    /\ g_calls' = g_calls + 1
    /\ UNCHANGED << program, g_starts, flock, fcall, stream, has_pthread, serial, s_start_times, maps, stacks, stderr,
                    fn, crashed, g_pending, g_inserted >>

\* line 134: duration_cast<Ns>(end - start.m_time).count()
\* (mutant: the operands exchanged)
ElapsedReversed(end, m_time) == m_time - end
Elapsed(end, m_time) == end - m_time

\* (mutant: an unmatched stop reports a zero interval before it returns 0)
StopCheckReportsUnmatched(t) ==
    /\ Sched(t)
    /\ pc[t] = "check"
    /\ LET stack == stacks[lc[t].start_times] IN
       IF stack = << >>
       THEN /\ lc' = [lc EXCEPT ![t].ret = ZeroULL, ![t].emitted = @ + 1]
            /\ stderr' = Append(stderr, [ fmt |-> "lines", location |-> lc[t].location,
                                          start_line |-> 0, line |-> lc[t].line,
                                          thread |-> "0", ns |-> ZeroULL,
                                          g_call |-> lc[t].g_id, g_start |-> 0 ])
            /\ pc' = [pc EXCEPT ![t] = "ready"]
       ELSE /\ lc' = [lc EXCEPT ![t].start = Top(stack),
                                ![t].diff = Elapsed(lc[t].end, stack[Top(stack)].m_time)]
            /\ stderr' = stderr
            /\ pc' = [pc EXCEPT ![t] = "print"]
    /\ UNCHANGED << program, g_starts, flock, fcall, stream, has_pthread, serial, now, s_start_times, maps, stacks,
                    fn, crashed, g_calls, g_pending, g_inserted, g_stops, g_names >>

\* lines 130-134: the empty test and its return 0llu; else start = top() and diff
StopCheck(t) ==
    /\ Sched(t)
    /\ pc[t] = "check"
    /\ LET stack == stacks[lc[t].start_times] IN
       IF stack = << >>
       THEN /\ lc' = [lc EXCEPT ![t].ret = ZeroULL]
            /\ pc' = [pc EXCEPT ![t] = "ready"]
       ELSE /\ lc' = [lc EXCEPT ![t].start = Top(stack),
                                ![t].diff = Elapsed(lc[t].end, stack[Top(stack)].m_time)]
            /\ pc' = [pc EXCEPT ![t] = "print"]
    /\ UNCHANGED << program, g_starts, flock, fcall, stream, has_pthread, serial, now, s_start_times, maps, stacks, stderr,
                    fn, crashed, g_calls, g_pending, g_inserted, g_stops, g_names >>

\* fprintf(stderr, format, ...) puts a report on the stream piece by piece as
\* it walks the format: the text up to the line numbers, then the thread, the
\* duration and the newline.
Fragments(report) ==
    << [ part |-> "head", report |-> report ], [ part |-> "tail", report |-> report ] >>

\* (mutant: the two line arguments of the fprintf exchanged)
LinesReportSwapped(location, start_line, line, thread_id, diff, g_call, g_start) ==
    [ fmt |-> "lines", location |-> location, start_line |-> line,
      line |-> start_line, thread |-> Hex(thread_id), ns |-> ToULL(diff),
      g_call |-> g_call, g_start |-> g_start ]

\* "[CLOCK]\t%s\tlines %u-%u [thread %lx]:\t%lu ns\n"
LinesReport(location, start_line, line, thread_id, diff, g_call, g_start) ==
    [ fmt |-> "lines", location |-> location, start_line |-> start_line,
      line |-> line, thread |-> Hex(thread_id), ns |-> ToULL(diff),
      g_call |-> g_call, g_start |-> g_start ]

\* start, the reference taken at line 133, read again at line 137; once another
\* thread has popped that element the reference dangles and the read is garbage.
StartRead(stack, start) ==
    IF start <= Len(stack) THEN {stack[start]}
    ELSE { Timer(EpochTimePoint, line, 0, 0, "") :
             line \in {0} \cup { site.line : site \in program.starts } }

\* lines 136-137: fprintf(stderr, ...), the whole call: the stream is locked,
\* the pieces are written and the stream is unlocked
StopPrint(t) ==
    /\ Sched(t)
    /\ pc[t] = "print"
    /\ flock = 0
    /\ \E timer \in StartRead(stacks[lc[t].start_times], lc[t].start) :
         stderr' = Append(stderr, LinesReport(lc[t].location, timer.m_line, lc[t].line,
                                              lc[t].thread_id, lc[t].diff, lc[t].g_id,
                                              timer.g_id))
    /\ stream' = stream \o Fragments(Last(stderr'))
    /\ lc' = [lc EXCEPT ![t].emitted = @ + 1]
    /\ pc' = [pc EXCEPT ![t] = "pop"]
    /\ UNCHANGED << program, g_starts, flock, fcall, has_pthread, serial, now, s_start_times, maps, stacks, fn,
                    crashed, g_calls, g_pending, g_inserted, g_stops, g_names >>

\* (mutant: a stop that empties a stack erases the stack's key from its map)
StopPopErasing(t) ==
    /\ Sched(t)
    /\ pc[t] = "pop"
    /\ LET stack == stacks[lc[t].start_times]
           key == Key(lc[t].location, lc[t].thread_id)
       IN /\ stack # << >>
          /\ stacks' = [stacks EXCEPT ![lc[t].start_times] = Pop(stack)]
          /\ maps' = IF Pop(stack) = << >>
                     THEN [maps EXCEPT ![lc[t].map] =
                             [x \in DOMAIN @ \ {lc[t].thread_id} |-> @[x]]]
                     ELSE maps
          /\ g_pending' = Put(g_pending, key,
                              SelectSeq(Pending(lc[t].location, lc[t].thread_id),
                                        LAMBDA i : i \in Ids(Pop(stack))))
          /\ lc' = [lc EXCEPT ![t].ret = ToULL(lc[t].diff),
                              ![t].g_popped = Removed(stack, Pop(stack)),
                              ![t].g_left = IdSeq(Pop(stack))]
    /\ pc' = [pc EXCEPT ![t] = "ready"]
    /\ UNCHANGED << program, g_starts, flock, fcall, stream, has_pthread, serial, now, s_start_times, stderr, fn,
                    crashed, g_calls, g_inserted, g_stops, g_names >>

\* lines 139-141: start_times.pop() and return diff.
\* pop() of a stack another thread emptied meanwhile is undefined: nothing
\* happens or the process dies.
StopPop(t) ==
    /\ Sched(t)
    /\ pc[t] = "pop"
    /\ LET stack == stacks[lc[t].start_times]
           key == Key(lc[t].location, lc[t].thread_id)
       IN IF stack # << >>
          THEN /\ stacks' = [stacks EXCEPT ![lc[t].start_times] = Pop(stack)]
               /\ g_pending' = Put(g_pending, key,
                                   SelectSeq(Pending(lc[t].location, lc[t].thread_id),
                                             LAMBDA i : i \in Ids(Pop(stack))))
               /\ lc' = [lc EXCEPT ![t].ret = ToULL(lc[t].diff),
                                   ![t].g_popped = Removed(stack, Pop(stack)),
                                   ![t].g_left = IdSeq(Pop(stack))]
               /\ crashed' = crashed
          ELSE /\ stacks' = stacks
               /\ g_pending' = g_pending
               /\ lc' = [lc EXCEPT ![t].ret = ToULL(lc[t].diff)]
               /\ crashed' \in BOOLEAN
    /\ pc' = [pc EXCEPT ![t] = "ready"]
    /\ UNCHANGED << program, g_starts, flock, fcall, stream, has_pthread, serial, now, s_start_times, maps, stderr, fn,
                    g_calls, g_inserted, g_stops, g_names >>

\* --------------------------------------------------------------- clock_func
\* "[CLOCK]\t%s\tline %u [thread %lx]:\t%lu ns\n"
LineReport(location, line, thread_id, diff, g_call) ==
    [ fmt |-> "line", location |-> location, start_line |-> line,
      line |-> line, thread |-> Hex(thread_id), ns |-> ToULL(diff),
      g_call |-> g_call, g_start |-> 0 ]

\* An exception leaving func() meets no handler in clock_func.
Propagate(e) == e

\* (mutant: clock_func keeps its interval on a stack of its own in the registry)
ClockFuncCallViaRegistry(t) ==
    /\ Sched(t)
    /\ pc[t] = "ready"
    /\ fn[t].state = "none"
    /\ g_calls < MaxCalls
    /\ t \in program.threads
    /\ \E site \in program.funcs, v \in ClockNow :
         LET is_lambda == Strchr(site.f_name, "[")
             thread_id == get_thread_id(t)
             location == get_location(site.file,
                                      IF is_lambda THEN "lambda()" ELSE site.f_name)
         IN /\ now' = v
            /\ fn' = [fn EXCEPT ![t] =
                        [NoFrame EXCEPT !.state = "invoked", !.file = site.file,
                                        !.line = site.line, !.f_name = site.f_name,
                                        !.callable = site.callable,
                                        !.thread_id = thread_id,
                                        !.location = location, !.start = v,
                                        !.invoked = 1, !.g_id = g_calls + 1]]
    /\ g_calls' = g_calls + 1
    /\ stacks' = Append(stacks, << Timer(now, 0, g_calls + 1, t, "") >>)
    /\ UNCHANGED << program, g_starts, flock, fcall, stream, has_pthread, serial, s_start_times, maps, stderr, pc, lc,
                    crashed, g_pending, g_inserted, g_stops, g_names >>


\* lines 145-154: is_lambda, thread_id, location, the bind, start = Clock::now()
\* and the entry into func()
ClockFuncCall(t) ==
    /\ Sched(t)
    /\ pc[t] = "ready"
    /\ fn[t].state = "none"
    /\ g_calls < MaxCalls
    /\ t \in program.threads
    /\ \E site \in program.funcs, v \in ClockNow :
         LET is_lambda == Strchr(site.f_name, "[")
             thread_id == get_thread_id(t)
             location == get_location(site.file,
                                      IF is_lambda THEN "lambda()" ELSE site.f_name)
         IN /\ now' = v
            /\ fn' = [fn EXCEPT ![t] =
                        [NoFrame EXCEPT !.state = "invoked", !.file = site.file,
                                        !.line = site.line, !.f_name = site.f_name,
                                        !.callable = site.callable,
                                        !.thread_id = thread_id,
                                        !.location = location, !.start = v,
                                        !.invoked = 1, !.g_id = g_calls + 1]]
    /\ g_calls' = g_calls + 1
    /\ UNCHANGED << program, g_starts, flock, fcall, stream, has_pthread, serial, s_start_times, maps, stacks, stderr, pc, lc,
                    crashed, g_pending, g_inserted, g_stops, g_names >>

\* line 154-156: func() returns; end = Clock::now(); diff
FuncEnd(t) ==
    /\ Sched(t)
    /\ pc[t] = "ready"
    /\ fn[t].state = "invoked"
    /\ fn[t].callable # "throws"
    /\ \E v \in ClockNow :
         /\ now' = v
         /\ fn' = [fn EXCEPT ![t].state = "ended", ![t].diff = v - fn[t].start]
    /\ UNCHANGED << program, g_starts, flock, fcall, stream, has_pthread, serial, s_start_times, maps, stacks, stderr, pc, lc,
                    crashed, g_calls, g_pending, g_inserted, g_stops, g_names >>

\* (mutant: the report is written on every exit from clock_func, as by a guard
\* object's destructor, so a throwing callable is reported too)
FuncThrowReported(t) ==
    /\ Sched(t)
    /\ pc[t] = "ready"
    /\ fn[t].state = "invoked"
    /\ fn[t].callable = "throws"
    /\ \E e \in Exceptions :
         fn' = [fn EXCEPT ![t].state = "none", ![t].thrown = e,
                          ![t].raised = Propagate(e), ![t].g_outcome = "raised"]
    /\ stderr' = Append(stderr, LineReport(fn[t].location, fn[t].line,
                                           fn[t].thread_id, 0, fn[t].g_id))
    /\ UNCHANGED << program, g_starts, flock, fcall, stream, has_pthread, serial, now, s_start_times, maps, stacks, pc,
                    lc, crashed, g_calls, g_pending, g_inserted, g_stops, g_names >>


\* line 154: func() throws; clock_func is left by the exception
FuncThrow(t) ==
    /\ Sched(t)
    /\ pc[t] = "ready"
    /\ fn[t].state = "invoked"
    /\ fn[t].callable = "throws"
    /\ \E e \in Exceptions :
         fn' = [fn EXCEPT ![t].state = "none", ![t].thrown = e,
                          ![t].raised = Propagate(e), ![t].g_outcome = "raised"]
    /\ UNCHANGED << program, g_starts, flock, fcall, stream, has_pthread, serial, now, s_start_times, maps, stacks, stderr, pc,
                    lc, crashed, g_calls, g_pending, g_inserted, g_stops, g_names >>

\* (mutant: the report is written twice)
FuncPrintTwice(t) ==
    /\ Sched(t)
    /\ fn[t].state = "ended"
    /\ stderr' = stderr \o << LineReport(fn[t].location, fn[t].line,
                                          fn[t].thread_id, fn[t].diff, fn[t].g_id),
                               LineReport(fn[t].location, fn[t].line,
                                          fn[t].thread_id, fn[t].diff, fn[t].g_id) >>
    /\ stream' = stream \o Fragments(Last(stderr')) \o Fragments(Last(stderr'))
    /\ fn' = [fn EXCEPT ![t].state = "none", ![t].emitted = @ + 1,
                        ![t].ret = ToULL(fn[t].diff), ![t].g_outcome = "returned"]
    /\ UNCHANGED << program, g_starts, flock, fcall, has_pthread, serial, now, s_start_times, maps, stacks, pc, lc,
                    crashed, g_calls, g_pending, g_inserted, g_stops, g_names >>


\* lines 158-161: fprintf(stderr, ...), the whole call, and return diff
FuncPrint(t) ==
    /\ Sched(t)
    /\ fn[t].state = "ended"
    /\ flock = 0
    /\ stderr' = Append(stderr, LineReport(fn[t].location, fn[t].line,
                                           fn[t].thread_id, fn[t].diff, fn[t].g_id))
    /\ stream' = stream \o Fragments(Last(stderr'))
    /\ fn' = [fn EXCEPT ![t].state = "none", ![t].emitted = @ + 1,
                        ![t].ret = ToULL(fn[t].diff), ![t].g_outcome = "returned"]
    /\ UNCHANGED << program, g_starts, flock, fcall, has_pthread, serial, now, s_start_times, maps, stacks, pc, lc,
                    crashed, g_calls, g_pending, g_inserted, g_stops, g_names >>

\* ------------------------------------------- fprintf(stderr, ...) in steps
\* The same fprintf calls, seen from inside the C library: a stdio call locks
\* its stream (flockfile), writes its output piece by piece and unlocks it.
\* A thread that finds the stream locked waits.

\* (mutant: the line written with the stream left unlocked, as by the
\* _unlocked calls)
StopFprintfUnlocked(t) ==
    /\ Sched(t)
    /\ pc[t] = "print"
    /\ fcall[t].pos = 0
    /\ \E timer \in StartRead(stacks[lc[t].start_times], lc[t].start) :
         fcall' = [fcall EXCEPT ![t] =
                     [ pos |-> 1,
                       report |-> LinesReport(lc[t].location, timer.m_line, lc[t].line,
                                              lc[t].thread_id, lc[t].diff, lc[t].g_id,
                                              timer.g_id) ]]
    /\ UNCHANGED << program, g_starts, flock, stream, has_pthread, serial, now, s_start_times, maps,
                    stacks, stderr, pc, lc, fn, crashed, g_calls, g_pending, g_inserted,
                    g_stops, g_names >>

\* lines 136-137: clock_stop enters fprintf, which takes the stream's lock
StopFprintf(t) ==
    /\ Sched(t)
    /\ pc[t] = "print"
    /\ fcall[t].pos = 0
    /\ flock = 0
    /\ flock' = t
    /\ \E timer \in StartRead(stacks[lc[t].start_times], lc[t].start) :
         fcall' = [fcall EXCEPT ![t] =
                     [ pos |-> 1,
                       report |-> LinesReport(lc[t].location, timer.m_line, lc[t].line,
                                              lc[t].thread_id, lc[t].diff, lc[t].g_id,
                                              timer.g_id) ]]
    /\ UNCHANGED << program, g_starts, stream, has_pthread, serial, now, s_start_times, maps,
                    stacks, stderr, pc, lc, fn, crashed, g_calls, g_pending, g_inserted,
                    g_stops, g_names >>

\* lines 158-159: clock_func enters fprintf, which takes the stream's lock
FuncFprintf(t) ==
    /\ Sched(t)
    /\ fn[t].state = "ended"
    /\ fcall[t].pos = 0
    /\ flock = 0
    /\ flock' = t
    /\ fcall' = [fcall EXCEPT ![t] =
                    [ pos |-> 1,
                      report |-> LineReport(fn[t].location, fn[t].line, fn[t].thread_id,
                                            fn[t].diff, fn[t].g_id) ]]
    /\ UNCHANGED << program, g_starts, stream, has_pthread, serial, now, s_start_times, maps,
                    stacks, stderr, pc, lc, fn, crashed, g_calls, g_pending, g_inserted,
                    g_stops, g_names >>

\* inside fprintf: the next piece of the line goes to the stream
FprintfPut(t) ==
    /\ Sched(t)
    /\ fcall[t].pos \in 1..Len(Fragments(fcall[t].report))
    /\ stream' = Append(stream, Fragments(fcall[t].report)[fcall[t].pos])
    /\ fcall' = [fcall EXCEPT ![t].pos = @ + 1]
    /\ UNCHANGED << program, g_starts, flock, has_pthread, serial, now, s_start_times, maps,
                    stacks, stderr, pc, lc, fn, crashed, g_calls, g_pending, g_inserted,
                    g_stops, g_names >>

\* lines 136-137: fprintf unlocks the stream and returns to clock_stop
StopFprintfReturn(t) ==
    /\ Sched(t)
    /\ pc[t] = "print"
    /\ fcall[t].pos > Len(Fragments(fcall[t].report))
    /\ flock' = 0
    /\ fcall' = [fcall EXCEPT ![t] = NoFprintf]
    /\ stderr' = Append(stderr, fcall[t].report)
    /\ lc' = [lc EXCEPT ![t].emitted = @ + 1]
    /\ pc' = [pc EXCEPT ![t] = "pop"]
    /\ UNCHANGED << program, g_starts, stream, has_pthread, serial, now, s_start_times, maps,
                    stacks, fn, crashed, g_calls, g_pending, g_inserted, g_stops, g_names >>

\* lines 158-161: fprintf unlocks the stream and returns to clock_func, which
\* returns diff
FuncFprintfReturn(t) ==
    /\ Sched(t)
    /\ fn[t].state = "ended"
    /\ fcall[t].pos > Len(Fragments(fcall[t].report))
    /\ flock' = 0
    /\ fcall' = [fcall EXCEPT ![t] = NoFprintf]
    /\ stderr' = Append(stderr, fcall[t].report)
    /\ fn' = [fn EXCEPT ![t].state = "none", ![t].emitted = @ + 1,
                        ![t].ret = ToULL(fn[t].diff), ![t].g_outcome = "returned"]
    /\ UNCHANGED << program, g_starts, stream, has_pthread, serial, now, s_start_times, maps,
                    stacks, pc, lc, crashed, g_calls, g_pending, g_inserted, g_stops,
                    g_names >>

\* ------------------------------------------------------------ specification
Next ==
    \E t \in Threads :
        \/ ClockStartCall(t)
        \/ IndexOuter(t)
        \/ InsertOuter(t)
        \/ IndexInner(t)
        \/ InsertInner(t)
        \/ StartEmplace(t)
        \/ StartSetTime(t)
        \/ ClockStopCall(t)
        \/ StopCheck(t)
        \/ StopPrint(t)
        \/ StopPop(t)
        \/ ClockFuncCall(t)
        \/ FuncEnd(t)
        \/ FuncThrow(t)
        \/ FuncPrint(t)

\* Calls made one at a time.
Spec == Init /\ [][Next]_vars
\* Calls made concurrently by the threads.
SpecConc == InitConc /\ [][Next]_vars

\* Two threads with identities of their own that use CLOCK_START(),
\* CLOCK_STOP() and CLOCK() concurrently, with every fprintf taken in steps.
InitStream ==
    /\ InitWith(FALSE)
    /\ has_pthread
    /\ program.threads = Threads
    /\ program.funcs # {}
NextStream ==
    \E t \in Threads :
        \/ ClockStartCall(t)
        \/ IndexOuter(t)
        \/ InsertOuter(t)
        \/ IndexInner(t)
        \/ InsertInner(t)
        \/ StartEmplace(t)
        \/ StartSetTime(t)
        \/ ClockStopCall(t)
        \/ StopCheck(t)
        \/ StopFprintf(t)
        \/ StopFprintfReturn(t)
        \/ StopPop(t)
        \/ ClockFuncCall(t)
        \/ FuncEnd(t)
        \/ FuncFprintf(t)
        \/ FuncFprintfReturn(t)
        \/ FprintfPut(t)
SpecStream == InitStream /\ [][NextStream]_vars

\* ------------------------------------------------------------------ claims
\* A thread that has returned from clock_stop / clock_start.
Returned(t, op) == pc[t] = "ready" /\ lc[t].op = op
\* The report lines a call wrote.
LinesOf(g_call) == SelectSeq(stderr, LAMBDA report : report.g_call = g_call)

\* C1: a clock_stop called when the stack of its (location, thread id) key is
\* empty or absent returns exactly 0 and writes no report line.
C1_UnmatchedStopReturnsZero ==
    \A t \in Threads :
        Returned(t, "stop") /\ lc[t].g_depth = 0 =>
            /\ lc[t].ret = ZeroULL
            /\ lc[t].emitted = 0
            /\ LinesOf(lc[t].g_id) = << >>

\* C1 witness: a clock_stop on a key that was absent has returned, and another
\* call has already created keys in the registry.
C1_Witness ==
    \E t \in Threads :
        /\ Returned(t, "stop")
        /\ ~lc[t].g_present
        /\ lc[t].ret = ZeroULL
        /\ lc[t].g_id > 1

\* C2: a matched clock_stop removes exactly the interval pushed by the most
\* recent clock_start on its key that was not yet matched, and reports it; the
\* earlier unmatched starts stay on the stack in their order.
C2_StopPopsMostRecentStart ==
    \A t \in Threads :
        Returned(t, "stop") /\ lc[t].g_popped # << >> =>
            /\ lc[t].g_pre # << >>
            /\ Len(lc[t].g_popped) = 1
            /\ lc[t].g_popped[1].g_id = Last(lc[t].g_pre)
            /\ LinesOf(lc[t].g_id)[1].g_start = Last(lc[t].g_pre)
            /\ lc[t].g_left = Front(lc[t].g_pre)

\* C2 witness: start A (call 1), start B (call 2), stop (call 3), stop (call 4)
\* on one key: the first stop reported B and the second stop reported A.
C2_Witness ==
    /\ Len(stderr) = 2
    /\ stderr[1].g_call = 3 /\ stderr[1].g_start = 2
    /\ stderr[2].g_call = 4 /\ stderr[2].g_start = 1
    /\ stderr[1].location = stderr[2].location
    /\ stderr[1].thread = stderr[2].thread
    /\ \E t \in Threads : Returned(t, "stop") /\ lc[t].g_id = 4

AllReturned == \A t \in Threads : pc[t] = "ready" /\ fn[t].state = "none"
\* The "lines" reports that carry thread t's identity.
StopLinesOf(t) ==
    SelectSeq(stderr, LAMBDA report :
                 report.fmt = "lines" /\ report.thread = Hex(PthreadSelf(t)))

\* C4: with threads that have identities of their own, under every
\* interleaving a thread that is outside the library finds on the stack of its
\* key exactly its own unmatched starts, in order, and every interval its
\* clock_stop popped was pushed by itself.
C4_ThreadsKeepOwnStacks ==
    has_pthread /\ ~crashed =>
        \A t \in Threads :
            pc[t] = "ready" /\ lc[t].op # "none" =>
                LET stack == StackOf(lc[t].location, lc[t].thread_id) IN
                /\ IdSeq(stack) = Pending(lc[t].location, lc[t].thread_id)
                /\ \A i \in 1..Len(stack) : stack[i].g_by = t
                /\ \A i \in 1..Len(lc[t].g_popped) : lc[t].g_popped[i].g_by = t

\* C5: with threads that have identities of their own, every key that an
\* operator[] has inserted stays linked to the stack inserted for it, also
\* when two threads touch the call site for the first time at the same time.
C5_InsertionsAreKept ==
    has_pthread /\ ~crashed =>
        \A e \in g_inserted :
            /\ Present(e[1], e[2])
            /\ maps[s_start_times[e[1]]][e[2]] = e[3]

\* C6: when the threads run balanced clock_start / clock_stop pairs at one call
\* site, every clock_stop made with a start of its thread pending writes a
\* report: at the end each thread has as many report lines as such stops, and
\* no such stop returned without a report or popped another thread's interval.
C6_AllBalancedStopsReport ==
    has_pthread /\ ~crashed /\ AllReturned =>
        \A t \in Threads :
            /\ Len(StopLinesOf(t)) = g_stops[t]
            /\ Returned(t, "stop") /\ lc[t].g_pre # << >> =>
                   /\ lc[t].emitted = 1
                   /\ \A i \in 1..Len(lc[t].g_popped) : lc[t].g_popped[i].g_by = t

\* C7: clock_func does no push and no pop of its own: no step of clock_func
\* itself (the call, the end of the callable, the throw, the report) changes
\* s_start_times, an inner map or a stack; the registry changes only in the
\* steps of clock_start and clock_stop, those made by the callable included.
C7_ClockFuncLeavesRegistry ==
    [][ (\E t \in Threads : fn'[t].state # fn[t].state) => registry' = registry ]_vars

\* C7 witness: a clock_func has returned whose callable pushed an interval
\* that is still on its stack.
C7_Witness ==
    \E t \in Threads :
        /\ fn[t].g_outcome = "returned"
        /\ fn[t].callable = "nested"
        /\ \E i \in 1..Len(stacks) : \E k \in 1..Len(stacks[i]) :
               stacks[i][k].g_id > fn[t].g_id

\* C8: a clock_func that returned normally invoked the callable exactly once
\* and wrote exactly one report line; while the callable runs, and until it
\* has returned, the call has written no report line.
C8_ClockFuncReportsOnceAfterCall ==
    \A t \in Threads :
        /\ fn[t].g_outcome = "returned" =>
               /\ fn[t].invoked = 1
               /\ fn[t].emitted = 1
               /\ Len(LinesOf(fn[t].g_id)) = 1
               /\ LinesOf(fn[t].g_id)[1].fmt = "line"
        /\ fn[t].state \in {"invoked", "ended"} =>
               /\ fn[t].invoked = 1
               /\ LinesOf(fn[t].g_id) = << >>

\* C8 witness: a clock_func has returned normally after its callable used the
\* registry.
C8_Witness ==
    \E t \in Threads :
        /\ fn[t].g_outcome = "returned"
        /\ fn[t].state = "none"
        /\ pc[t] = "ready" /\ lc[t].g_id > fn[t].g_id

\* C9: when the callable throws, the exception that leaves clock_func is the
\* one the callable threw, the call wrote no report line, and the callable
\* was invoked once.
C9_ThrowPropagatesWithoutReport ==
    \A t \in Threads :
        fn[t].g_outcome = "raised" =>
            /\ fn[t].state = "none"
            /\ fn[t].thrown \in Exceptions
            /\ fn[t].raised = fn[t].thrown
            /\ fn[t].emitted = 0
            /\ LinesOf(fn[t].g_id) = << >>
            /\ fn[t].invoked = 1

\* C9 witness: a clock_func was left by an exception after an earlier call
\* had written a report.
C9_Witness ==
    \E t \in Threads :
        /\ fn[t].g_outcome = "raised"
        /\ fn[t].raised = "e2"
        /\ stderr # << >>

\* C10: two call sites share a registry key only if their file::function
\* strings are equal: every location was computed from one such string only.
C10_LocationIsInjective ==
    \A location \in DOMAIN g_names : Cardinality(g_names[location]) <= 1

\* C11: the report line of a matched clock_stop carries the location of the
\* stop's call site, the line of the clock_start whose interval the stop
\* popped, the stop's own line, the calling thread's identity, and the same
\* elapsed value that the call returns.
C11_ReportCarriesStopIdentity ==
    \A t \in Threads :
        Returned(t, "stop") /\ lc[t].g_popped # << >> =>
            /\ Len(LinesOf(lc[t].g_id)) = 1
            /\ LET report == LinesOf(lc[t].g_id)[1] IN
               /\ report.fmt = "lines"
               /\ report.location = get_location(lc[t].file, lc[t].function)
               /\ report.start_line = lc[t].g_popped[1].m_line
               /\ report.g_start = lc[t].g_popped[1].g_id
               /\ report.line = lc[t].line
               /\ report.thread = Hex(get_thread_id(t))
               /\ report.ns = lc[t].ret

\* C11 witness: the stop at a.cpp::main line 12 has reported the interval
\* started at line 10 with a non-zero duration, in a build with thread ids.
C11_Witness ==
    \E t \in Threads :
        /\ Returned(t, "stop") /\ lc[t].g_popped # << >>
        /\ has_pthread
        /\ LinesOf(lc[t].g_id) # << >>
        /\ LinesOf(lc[t].g_id)[1].location = "a.cpp::main"
        /\ LinesOf(lc[t].g_id)[1].start_line = 10
        /\ LinesOf(lc[t].g_id)[1].line = 12
        /\ LinesOf(lc[t].g_id)[1].thread = "8c"
        /\ LinesOf(lc[t].g_id)[1].ns.val = 1

\* C12: the registry never removes a key: a location that is a key of
\* s_start_times, and a thread id that is a key of a location's inner map, are
\* keys in the next state too, whatever step is taken, the pop that empties a
\* stack included.
C12_KeysAreNeverRemoved ==
    [][ \A location \in DOMAIN s_start_times :
            /\ location \in DOMAIN s_start_times'
            /\ \A thread_id \in DOMAIN maps[s_start_times[location]] :
                   /\ thread_id \in DOMAIN maps'[s_start_times'[location]]
                   /\ maps'[s_start_times'[location]][thread_id]
                        = maps[s_start_times[location]][thread_id] ]_vars

\* C12 witness: a clock_stop has returned 0 on a key that it found present
\* with an empty stack, after an earlier clock_stop on that key reported and
\* popped the key's last interval.
C12_Witness ==
    \E t \in Threads :
        /\ Returned(t, "stop")
        /\ lc[t].g_present /\ lc[t].g_depth = 0
        /\ Present(lc[t].location, lc[t].thread_id)
        /\ StackOf(lc[t].location, lc[t].thread_id) = << >>
        /\ \E i \in 1..Len(stderr) :
               /\ stderr[i].location = lc[t].location
               /\ stderr[i].thread = Hex(lc[t].thread_id)
               /\ stderr[i].g_call < lc[t].g_id

\* C13: clock_stop matches by file, enclosing function and thread, never by
\* line: a stop with a start pending on its key pops the most recent one
\* whatever the two lines are, and every interval a stop pops or reports was
\* started in the stop's own file and function by a thread of the stop's
\* identity: a stop issued from another function or file than a pending start
\* returns 0 and leaves that start's interval on its stack.
C13_StopMatchesFileAndFunctionOnly ==
    \A t \in Threads :
        Returned(t, "stop") =>
            /\ lc[t].g_pre # << >> =>
                   /\ Len(lc[t].g_popped) = 1
                   /\ lc[t].g_popped[1].g_id = Last(lc[t].g_pre)
            /\ \A i \in 1..Len(lc[t].g_popped) :
                   /\ lc[t].g_popped[i].g_from = lc[t].file \o "::" \o lc[t].function
                   /\ get_thread_id(lc[t].g_popped[i].g_by) = lc[t].thread_id
            /\ lc[t].g_popped = << >> =>
                   /\ lc[t].ret = ZeroULL
                   /\ LinesOf(lc[t].g_id) = << >>

\* C14: in a build without _PTHREAD_H get_thread_id returns 0 for every
\* thread, so every call records thread id 0 and the clock_start / clock_stop
\* calls of all threads at one location are bound to one and the same stack.
C14_NoThreadsShareOneStack ==
    ~has_pthread =>
        /\ \A t \in Threads :
               /\ get_thread_id(t) = 0
               /\ lc[t].thread_id = 0
               /\ fn[t].thread_id = 0
        /\ \A t, u \in Threads :
               /\ lc[t].start_times # 0 /\ lc[u].start_times # 0
               /\ lc[t].location = lc[u].location
               => lc[t].start_times = lc[u].start_times
        /\ \A i \in 1..Len(maps) : DOMAIN maps[i] \subseteq {0}
        /\ \A i \in 1..Len(stderr) : stderr[i].thread = "0"

\* C14 witness: without _PTHREAD_H a clock_stop of one thread has popped and
\* reported the interval that the other thread's clock_start pushed.
C14_Witness ==
    /\ ~has_pthread
    /\ \E t \in Threads :
           /\ Returned(t, "stop")
           /\ lc[t].g_popped # << >>
           /\ lc[t].g_popped[1].g_by # t
           /\ LinesOf(lc[t].g_id) # << >>

\* The Timer at position k of stack i is the same object in the next state.
SameTimer(i, k) ==
    /\ k <= Len(stacks'[i])
    /\ stacks'[i][k].g_id = stacks[i][k].g_id
\* The clock_start that pushed the timer has not yet stored its timestamp.
BeingStarted(timer) ==
    \E t \in Threads : pc[t] = "set_time" /\ lc[t].g_id = timer.g_id

\* C15 (as stated): from the state in which clock_start has placed a Timer on
\* its stack, no step changes the Timer's timestamp or line as long as it is
\* on the stack.
C15_TimerNeverMutated ==
    [][ \A i \in 1..Len(stacks) : \A k \in 1..Len(stacks[i]) :
            SameTimer(i, k) => stacks'[i][k] = stacks[i][k] ]_vars

\* C15 (amended): a Timer's line is fixed from the emplace on; its timestamp is
\* the epoch while the clock_start that pushed it has not stored Clock::now(),
\* that store is the only step that changes it, and from clock_start's return
\* until the Timer is popped no step changes the Timer.
C15_TimerFixedOnceStartReturns ==
    [][ \A i \in 1..Len(stacks) : \A k \in 1..Len(stacks[i]) :
            SameTimer(i, k) =>
                IF BeingStarted(stacks[i][k])
                THEN /\ stacks[i][k].m_time = EpochTimePoint
                     /\ stacks'[i][k].m_line = stacks[i][k].m_line
                     /\ stacks'[i][k].m_time \in {EpochTimePoint, now'}
                ELSE /\ stacks[i][k].m_time # EpochTimePoint
                     /\ stacks'[i][k] = stacks[i][k] ]_vars

\* C15 witness: the interval started first at line 10 is on its stack with its
\* timestamp, after a later clock_start on the same stack and a clock_stop
\* that popped that later interval have returned.
C15_Witness ==
    /\ \A t \in Threads : pc[t] = "ready"
    /\ \E i \in 1..Len(stacks) :
           /\ Len(stacks[i]) = 1
           /\ stacks[i][1].g_id = 1
           /\ stacks[i][1].m_line = 10
           /\ stacks[i][1].m_time = 1
    /\ now = 2
    /\ Len(stderr) = 1 /\ stderr[1].g_start = 2 /\ stderr[1].ns.val = 1

\* The pieces that whole report lines put on the stream.
RECURSIVE Flatten(_)
Flatten(reports) ==
    IF reports = << >> THEN << >> ELSE Fragments(Head(reports)) \o Flatten(Tail(reports))
\* The pieces written so far by the fprintf call that holds the stream's lock.
PartialLine ==
    IF flock = 0 THEN << >>
    ELSE SubSeq(Fragments(fcall[flock].report), 1, fcall[flock].pos - 1)

\* C16: under every interleaving of the threads' clock_stop and clock_func
\* calls the stream is a sequence of whole report lines, one per fprintf call
\* that has returned and in the order of those calls, followed at most by the
\* line begun by the one call now inside fprintf; no two lines come from the
\* same call and no piece of one line stands inside another.
C16_ReportLinesAreWhole ==
    /\ stream = Flatten(stderr) \o PartialLine
    /\ \A i, j \in 1..Len(stderr) : i # j => stderr[i].g_call # stderr[j].g_call
    /\ \A t \in Threads : fcall[t].pos > 0 => flock = t

\* C16 witness: a clock_stop of one thread is inside fprintf with the first
\* piece of its line written, while the other thread's clock_func has its
\* report ready and waits for the stream, after an earlier line was written.
C16_Witness ==
    \E t, u \in Threads :
        /\ t # u
        /\ flock = t /\ pc[t] = "print" /\ fcall[t].pos = 2
        /\ fn[u].state = "ended" /\ fcall[u].pos = 0
        /\ stderr # << >>
        /\ Len(stream) = 2 * Len(stderr) + 1

\* The reports that the clock_stop calls on a key have written.
Reports(location, thread_id) ==
    Len(SelectSeq(stderr, LAMBDA report :
                     /\ report.fmt = "lines"
                     /\ report.location = location
                     /\ report.thread = Hex(thread_id)))
\* The (location, thread id) keys that were started or are in the registry.
Keys ==
    DOMAIN g_starts \cup
    { Key(location, thread_id) :
        location \in DOMAIN s_start_times,
        thread_id \in UNION { DOMAIN maps[i] : i \in 1..Len(maps) } }

\* C17: whenever every call has returned, for every key the depth of its stack
\* is the number of clock_start calls made on the key minus the number of
\* reports written by the clock_stop calls on the key; and in every state the
\* reports of a key are no more than its starts.
C17_DepthIsStartsMinusReports ==
    \A key \in Keys :
        /\ Reports(key[1], key[2]) <= Starts(key[1], key[2])
        /\ (\A t \in Threads : pc[t] = "ready") =>
               Len(StackOf(key[1], key[2]))
                   = Starts(key[1], key[2]) - Reports(key[1], key[2])

\* C17 witness: four calls have returned, among them two clock_start calls and
\* one reporting clock_stop on one key, whose stack holds one interval.
C17_Witness ==
    /\ \A t \in Threads : pc[t] = "ready"
    /\ g_calls = 4
    /\ \E key \in Keys :
           /\ Starts(key[1], key[2]) = 2
           /\ Reports(key[1], key[2]) = 1
           /\ Len(StackOf(key[1], key[2])) = 1

\* The registry key a Timer was pushed under.
KeyOf(timer) == Key(Snprintf(BuffSize, timer.g_from), get_thread_id(timer.g_by))
\* Thread t takes this step inside a clock_start / clock_stop on the key that
\* the registry links to stack i.
StepsOnStack(t, i) ==
    /\ pc'[t] # pc[t]
    /\ lc[t].start_times = i
    /\ Present(lc[t].location, lc[t].thread_id)
    /\ maps[s_start_times[lc[t].location]][lc[t].thread_id] = i

\* C18: a step changes a stack only if it is a step of a clock_start or
\* clock_stop on the key of that stack, so the stacks of all other keys stay as
\* they are; a step removes an interval only if it is the pop of a clock_stop
\* on the key the interval was pushed under, and it removes the top one only:
\* an interval whose start is not matched stays on its stack.
C18_OtherKeysUntouched ==
    [][ \A i \in 1..Len(stacks) :
            stacks'[i] # stacks[i] =>
                \E t \in Threads :
                    /\ StepsOnStack(t, i)
                    /\ \/ /\ lc[t].op = "start"
                          /\ Len(stacks'[i]) >= Len(stacks[i])
                          /\ IdSeq(SubSeq(stacks'[i], 1, Len(stacks[i]))) = IdSeq(stacks[i])
                       \/ /\ lc[t].op = "stop"
                          /\ pc[t] = "pop"
                          /\ stacks'[i] = Front(stacks[i])
                          /\ KeyOf(Last(stacks[i])) = Key(lc[t].location, lc[t].thread_id)
      ]_vars

\* C18 witness: the interval pushed by the first call is on its stack, not
\* matched, after a clock_start and a reporting clock_stop on another key
\* have returned.
C18_Witness ==
    /\ \A t \in Threads : pc[t] = "ready"
    /\ \E i \in 1..Len(stacks) :
           /\ stacks[i] # << >>
           /\ stacks[i][1].g_id = 1
           /\ \A k \in 1..Len(stderr) : stderr[k].g_start # 1
           /\ \E k \in 1..Len(stderr) :
                  /\ stderr[k].fmt = "lines"
                  /\ Key(stderr[k].location, stderr[k].thread)
                       # Key(KeyOf(stacks[i][1])[1], Hex(KeyOf(stacks[i][1])[2]))

\* Thread t takes this step inside a clock_stop that found its key absent.
StepsInAbsentStop(t) ==
    /\ pc[t] # "ready"
    /\ pc'[t] # pc[t]
    /\ lc[t].op = "stop"
    /\ ~lc[t].g_present

\* C19: a clock_stop on a key that is absent from s_start_times returns 0 with
\* that key inserted and linked to an empty stack; no step of the call changes
\* the report stream, the contents of an existing stack or the link of an
\* existing key, and no other key is inserted.
C19_AbsentStopOnlyInsertsItsKey ==
    [][ \A t \in Threads :
            StepsInAbsentStop(t) =>
                /\ stderr' = stderr /\ stream' = stream
                /\ \A i \in 1..Len(stacks) : stacks'[i] = stacks[i]
                /\ \A i \in (Len(stacks) + 1)..Len(stacks') : stacks'[i] = << >>
                /\ DOMAIN s_start_times' \subseteq DOMAIN s_start_times \cup {lc[t].location}
                /\ \A location \in DOMAIN s_start_times :
                       /\ s_start_times'[location] = s_start_times[location]
                       /\ \A thread_id \in DOMAIN maps[s_start_times[location]] :
                              /\ thread_id \in DOMAIN maps'[s_start_times[location]]
                              /\ maps'[s_start_times[location]][thread_id]
                                   = maps[s_start_times[location]][thread_id]
                       /\ location # lc[t].location =>
                              maps'[s_start_times[location]] = maps[s_start_times[location]]
                /\ pc'[t] = "ready" =>
                       /\ lc'[t].ret = ZeroULL
                       /\ Present(lc[t].location, lc[t].thread_id)'
                       /\ StackOf(lc[t].location, lc[t].thread_id)' = << >>
      ]_vars

\* C19 witness: a clock_stop that found its key absent has returned 0 and the
\* key is in the registry with an empty stack, beside the pending interval of
\* another key and a report written before.
C19_Witness ==
    \E t \in Threads :
        /\ Returned(t, "stop")
        /\ ~lc[t].g_present
        /\ lc[t].ret = ZeroULL
        /\ Present(lc[t].location, lc[t].thread_id)
        /\ StackOf(lc[t].location, lc[t].thread_id) = << >>
        /\ \E i \in 1..Len(stacks) :
               stacks[i] # << >> /\ stacks[i][1].g_id < lc[t].g_id
        /\ stderr # << >>
        /\ \A k \in 1..Len(stderr) : stderr[k].g_call < lc[t].g_id

\* Order of two unsigned long long values.
LessEqULL(a, b) == a.wrap < b.wrap \/ (a.wrap = b.wrap /\ a.val <= b.val)

\* C20: for nested intervals on one key (start A, start B, stop, stop) the
\* duration that the stop matching B returned and reported is at most the
\* duration that the later stop matching A returned and reported.
C20_InnerDurationAtMostOuter ==
    /\ \A t \in Threads :
           Returned(t, "stop") /\ lc[t].g_popped # << >> =>
               /\ LinesOf(lc[t].g_id) # << >>
               /\ LinesOf(lc[t].g_id)[1].ns = lc[t].ret
    /\ \A i, j \in 1..Len(stderr) :
           /\ i < j
           /\ stderr[i].fmt = "lines" /\ stderr[j].fmt = "lines"
           /\ stderr[i].location = stderr[j].location
           /\ stderr[i].thread = stderr[j].thread
           /\ stderr[j].g_start < stderr[i].g_start
           => LessEqULL(stderr[i].ns, stderr[j].ns)

\* C20 witness: start A, start B, stop, stop on one key have returned: the
\* stop matching B returned 0 ns and the stop matching A, later, 1 ns.
C20_Witness ==
    /\ Len(stderr) = 2
    /\ stderr[1].g_start = 2 /\ stderr[1].g_call = 3 /\ stderr[1].ns = ToULL(0)
    /\ stderr[2].g_start = 1 /\ stderr[2].g_call = 4 /\ stderr[2].ns = ToULL(1)
    /\ stderr[1].location = stderr[2].location
    /\ stderr[1].thread = stderr[2].thread
    /\ \E t \in Threads :
           Returned(t, "stop") /\ lc[t].g_id = 4 /\ lc[t].ret = ToULL(1)

=============================================================================
